---- MODULE Spec2Model ----
(***************************************************************************)
(* NLU configuration module of the chatbot backend (src/config/database.js *)
(* from line 126): text normalisation, rule-table entity extraction, the   *)
(* start-up of the NLP manager and the intent acceptance threshold.        *)
(*                                                                         *)
(* A text is a sequence of one-character strings; offsets are 0-based as   *)
(* in JavaScript, so the character at offset p of text t is t[p + 1].      *)
(***************************************************************************)
EXTENDS FiniteSets, Integers, Sequences, TLC

\* ------------------------------------------------------------------------
\* Characters
\* ------------------------------------------------------------------------
UpperSeq == <<"A", "B", "C", "D", "E", "F", "G", "H", "I", "J", "K", "L", "M", "N", "O", "P", "Q", "R", "S", "T", "U", "V", "W", "X", "Y", "Z">>

LowerSeq == <<"a", "b", "c", "d", "e", "f", "g", "h", "i", "j", "k", "l", "m", "n", "o", "p", "q", "r", "s", "t", "u", "v", "w", "x", "y", "z">>

DigitSeq == <<"0", "1", "2", "3", "4", "5", "6", "7", "8", "9">>

Range(s) == {s[i] : i \in 1..Len(s)}

Upper == Range(UpperSeq)

Lower == Range(LowerSeq)

Digit == Range(DigitSeq)

\* \w without the u flag: [A-Za-z0-9_]
WordChars == Upper \cup Lower \cup Digit \cup {"_"}

\* \s (the members this model draws on: space and tab)
Whitespace == {" ", "\t"}

\* String.prototype.toLowerCase on one character
toLowerCaseChar(c) ==
    IF c \in Upper THEN LowerSeq[CHOOSE i \in 1..Len(UpperSeq) : UpperSeq[i] = c]
    ELSE c

\* the text left in the case it came in
toLowerCaseSkipped(s) == s

toLowerCase(s) == [i \in 1..Len(s) |-> toLowerCaseChar(s[i])]

\* ------------------------------------------------------------------------
\* preprocessText
\* ------------------------------------------------------------------------
RECURSIVE DropLeading(_, _)
DropLeading(s, C) ==
    IF s # <<>> /\ Head(s) \in C THEN DropLeading(Tail(s), C) ELSE s

RECURSIVE DropTrailing(_, _)
DropTrailing(s, C) ==
    IF s # <<>> /\ s[Len(s)] \in C THEN DropTrailing(SubSeq(s, 1, Len(s) - 1), C) ELSE s

\* processed.replace(/\s+/g, ' ')
RECURSIVE CollapseWhitespace(_)
CollapseWhitespace(s) ==
    IF s = <<>> THEN <<>>
    ELSE IF Head(s) \in Whitespace
         THEN <<" ">> \o CollapseWhitespace(DropLeading(s, Whitespace))
         ELSE <<Head(s)>> \o CollapseWhitespace(Tail(s))

\* String.prototype.trim
trim(s) == DropTrailing(DropLeading(s, Whitespace), Whitespace)

\* the characters /[^\w\s.,!?'-]/ does not match
KeptChars == WordChars \cup Whitespace \cup {".", ",", "!", "?", "'", "-"}

\* processed.replace(/[^\w\s.,!?'-]/g, '')
StripSpecial(s) == SelectSeq(s, LAMBDA c : c \in KeptChars)

preprocessText(text) == StripSpecial(trim(CollapseWhitespace(toLowerCase(text))))

\* ------------------------------------------------------------------------
\* Regular expressions of the entity table: a pattern is a sequence of
\* alternatives, an alternative a sequence of atoms.  Matching is the
\* backtracking search of the JavaScript engine: quantifiers are greedy and
\* the first successful path is the match.
\* ------------------------------------------------------------------------
\* a character class with a quantifier {lo,hi}; hi = -1 is "no upper limit"
Cls(S, lo, hi) == [kind |-> "cls", set |-> S, min |-> lo, max |-> hi, sub |-> <<>>]

One(S) == Cls(S, 1, 1)

Plus(S) == Cls(S, 1, -1)

Maybe(S) == Cls(S, 0, 1)

\* the assertion \b
WB == [kind |-> "wb", set |-> {}, min |-> 0, max |-> 0, sub |-> <<>>]

\* an optional non-capturing group (?: ... )?
Opt(items) == [kind |-> "opt", set |-> {}, min |-> 0, max |-> 1, sub |-> items]

\* a class under the i flag
IgnoreCase(S) ==
    S \cup {toLowerCaseChar(c) : c \in S}
      \cup {UpperSeq[i] : i \in {j \in 1..Len(LowerSeq) : LowerSeq[j] \in S}}

CharAt(text, p) == text[p + 1]

IsWordAt(text, p) == p >= 0 /\ p < Len(text) /\ CharAt(text, p) \in WordChars

AtWordBoundary(text, p) == IsWordAt(text, p - 1) # IsWordAt(text, p)

\* number of consecutive characters of S from offset p, at most hi of them
RECURSIVE RunLength(_, _, _, _)
RunLength(text, p, S, hi) ==
    IF hi # 0 /\ p < Len(text) /\ CharAt(text, p) \in S
    THEN 1 + RunLength(text, p + 1, S, IF hi = -1 THEN -1 ELSE hi - 1)
    ELSE 0

\* end offset of the match of the atoms from offset p, -1 when there is none
RECURSIVE MatchSeq(_, _, _)
RECURSIVE TryCounts(_, _, _, _, _)
MatchSeq(items, text, p) ==
    IF items = <<>> THEN p
    ELSE LET it == Head(items)
             rest == Tail(items)
         IN  CASE it.kind = "wb" ->
                    IF AtWordBoundary(text, p) THEN MatchSeq(rest, text, p) ELSE -1
               [] it.kind = "opt" ->
                    LET r == MatchSeq(it.sub \o rest, text, p)
                    IN  IF r # -1 THEN r ELSE MatchSeq(rest, text, p)
               [] OTHER ->
                    TryCounts(it, rest, text, p, RunLength(text, p, it.set, it.max))

TryCounts(it, rest, text, p, n) ==
    IF n < it.min THEN -1
    ELSE LET r == MatchSeq(rest, text, p + n)
         IN  IF r # -1 THEN r ELSE TryCounts(it, rest, text, p, n - 1)

\* the alternatives are tried left to right
RECURSIVE MatchAlts(_, _, _)
MatchAlts(alts, text, p) ==
    IF alts = <<>> THEN -1
    ELSE LET r == MatchSeq(Head(alts), text, p)
         IN  IF r # -1 THEN r ELSE MatchAlts(Tail(alts), text, p)

\* RegExpBuiltinExec of a global pattern: the leftmost match at or after
\* lastIndex; lastIndex becomes the end of the match, or 0 on failure.
RECURSIVE Exec(_, _, _)
Exec(alts, text, lastIndex) ==
    IF lastIndex > Len(text)
    THEN [found |-> FALSE, index |-> 0, end |-> 0, lastIndex |-> 0]
    ELSE LET e == MatchAlts(alts, text, lastIndex)
         IN  IF e # -1
             THEN [found |-> TRUE, index |-> lastIndex, end |-> e, lastIndex |-> e]
             ELSE Exec(alts, text, lastIndex + 1)

\* ------------------------------------------------------------------------
\* entityTypes
\* ------------------------------------------------------------------------
Letters == Upper \cup Lower

AlphaNum == Letters \cup Digit

\* /\b[A-Z][a-z]+\s+[A-Z][a-z]+\b/g
personRegex ==
    << <<WB, One(Upper), Plus(Lower), Plus(Whitespace), One(Upper), Plus(Lower), WB>> >>

\* /\b\d{1,2}\/\d{1,2}\/\d{4}\b|\b\d{4}-\d{2}-\d{2}\b/g
dateRegex ==
    << <<WB, Cls(Digit, 1, 2), One({"/"}), Cls(Digit, 1, 2), One({"/"}), Cls(Digit, 4, 4), WB>>,
       <<WB, Cls(Digit, 4, 4), One({"-"}), Cls(Digit, 2, 2), One({"-"}), Cls(Digit, 2, 2), WB>> >>

\* /\b\d{1,2}:\d{2}(?:\s?[AP]M)?\b/gi
timeRegex ==
    << <<WB, Cls(Digit, 1, 2), One({":"}), Cls(Digit, 2, 2),
         Opt(<<Maybe(Whitespace), One(IgnoreCase({"A", "P"})), One(IgnoreCase({"M"}))>>), WB>> >>

\* /\b[A-Za-z0-9._%+-]+@[A-Za-z0-9.-]+\.[A-Z|a-z]{2,}\b/g
emailRegex ==
    << <<WB, Plus(AlphaNum \cup {".", "_", "%", "+", "-"}), One({"@"}),
         Plus(AlphaNum \cup {".", "-"}), One({"."}), Cls(Letters \cup {"|"}, 2, -1), WB>> >>

\* /\b\d{3}-\d{3}-\d{4}\b|\b\(\d{3}\)\s?\d{3}-\d{4}\b/g
phoneRegex ==
    << <<WB, Cls(Digit, 3, 3), One({"-"}), Cls(Digit, 3, 3), One({"-"}), Cls(Digit, 4, 4), WB>>,
       <<WB, One({"("}), Cls(Digit, 3, 3), One({")"}), Maybe(Whitespace),
         Cls(Digit, 3, 3), One({"-"}), Cls(Digit, 4, 4), WB>> >>

\* /\b\d+(?:\.\d+)?\b/g
numberRegex ==
    << <<WB, Plus(Digit), Opt(<<One({"."}), Plus(Digit)>>), WB>> >>

\* Object.entries(entityTypes): the types in declaration order
EntityTypeOrder == <<"person", "date", "time", "email", "phone", "number">>

EntityTypeNames == Range(EntityTypeOrder)

entityTypes ==
    [person |-> personRegex, date |-> dateRegex, time |-> timeRegex,
     email |-> emailRegex, phone |-> phoneRegex, number |-> numberRegex]

\* ------------------------------------------------------------------------
\* extractentities
\* ------------------------------------------------------------------------
\* the loop of RegExp.prototype[Symbol.match] for a global pattern: exec is
\* repeated from the pattern's lastIndex until it fails
RECURSIVE MatchLoop(_, _, _)
MatchLoop(alts, text, lastIndex) ==
    LET r == Exec(alts, text, lastIndex)
    IN  IF ~r.found THEN [matches |-> <<>>, lastIndex |-> r.lastIndex]
        ELSE LET m == SubSeq(text, r.index + 1, r.end)
                 more == MatchLoop(alts, text,
                                   IF m = <<>> THEN r.lastIndex + 1 ELSE r.lastIndex)
             IN  [matches |-> <<m>> \o more.matches, lastIndex |-> more.lastIndex]

\* a single exec on the shared pattern object: one match, lastIndex left at
\* its end
ExecOnce(alts, text, lastIndex) ==
    LET r == Exec(alts, text, lastIndex)
    IN  [matches |-> IF r.found THEN <<SubSeq(text, r.index + 1, r.end)>> ELSE <<>>,
         lastIndex |-> r.lastIndex]

\* text.match(entityConfig.regex) on a pattern object whose lastIndex is
\* the given one: Symbol.match first sets lastIndex to 0
StringMatch(alts, text, lastIndex) == MatchLoop(alts, text, 0)

\* the 1-based position of the first occurrence, 0 if none
indexOfOneBased(text, m) ==
    LET hits == {p \in 1..(Len(text) - Len(m) + 1) : SubSeq(text, p, p + Len(m) - 1) = m}
    IN  IF hits = {} THEN 0 ELSE CHOOSE p \in hits : \A q \in hits : p <= q

\* String.prototype.indexOf: offset of the first occurrence, -1 if none
indexOf(text, m) ==
    LET hits == {p \in 0..(Len(text) - Len(m)) : SubSeq(text, p + 1, p + Len(m)) = m}
    IN  IF hits = {} THEN -1 ELSE CHOOSE p \in hits : \A q \in hits : p <= q

\* the entities pushed for the matches of one type
EntitiesOf(entityType, text, matches) ==
    [i \in 1..Len(matches) |->
        [type |-> entityType, value |-> matches[i],
         start |-> indexOf(text, matches[i]),
         end |-> indexOf(text, matches[i]) + Len(matches[i])]]

\* the for loop over Object.entries(entityTypes), from the k-th type on
RECURSIVE ExtractFrom(_, _, _)
ExtractFrom(k, text, lastIndexes) ==
    IF k > Len(EntityTypeOrder) THEN [entities |-> <<>>, lastIndexes |-> lastIndexes]
    ELSE LET entityType == EntityTypeOrder[k]
             res == StringMatch(entityTypes[entityType], text, lastIndexes[entityType])
             more == ExtractFrom(k + 1, text,
                                 [lastIndexes EXCEPT ![entityType] = res.lastIndex])
         IN  [entities |-> EntitiesOf(entityType, text, res.matches) \o more.entities,
              lastIndexes |-> more.lastIndexes]

\* extractentities(text) with the shared pattern objects in the given state
extractentities(text, lastIndexes) == ExtractFrom(1, text, lastIndexes)

FreshIndexes == [t \in EntityTypeNames |-> 0]

\* ------------------------------------------------------------------------
\* intentCategories and InitializeNlpManager
\* ------------------------------------------------------------------------
intentCategories ==
    [greeting |->
           [patterns |->
              <<"hello",
                "hi",
                "hey",
                "good morning",
                "good afternoon",
                "good evening",
                "greetings",
                "howdy",
                "what's up",
                "how are you">>,
            entities |-> <<>>,
            responses |->
              <<"Hello! How can I help you today?",
                "Hi there! What can I do for you?",
                "Greetings! How may I assist you?",
                "Hello! I'm here to help. What do you need?">>],
         goodbye |->
           [patterns |->
              <<"bye",
                "goodbye",
                "see you",
                "farewell",
                "take care",
                "have a good day",
                "catch you later",
                "until next time",
                "so long",
                "adios">>,
            entities |-> <<>>,
            responses |->
              <<"Goodbye! Have a great day!",
                "See you later! Take care!",
                "Farewell! Feel free to come back anytime.",
                "Bye! It was nice talking with you.">>],
         help |->
           [patterns |->
              <<"help",
                "can you help",
                "I need help",
                "assist me",
                "support",
                "what can you do",
                "how does this work",
                "instructions">>,
            entities |-> <<>>,
            responses |->
              <<"I'm here to help! You can ask me any question and I'll do my best to assist you.",
                "I can help you with various tasks. What specific help do you need?",
                "Sure! I'm designed to assist you. What would you like help with?">>],
         question |->
           [patterns |->
              <<"what is",
                "who is",
                "where is",
                "when is",
                "why is",
                "how is",
                "what are",
                "who are",
                "where are",
                "when are",
                "why are",
                "how are",
                "tell me about",
                "explain",
                "describe">>,
            entities |-> <<"topic",
   "subject">>,
            responses |->
              <<"Let me help you with that question.",
                "I'll do my best to answer your question.",
                "That's a great question. Let me think about it.">>],
         compliment |->
           [patterns |->
              <<"thank you",
                "thanks",
                "great job",
                "well done",
                "awesome",
                "you're helpful",
                "good work",
                "excellent",
                "amazing">>,
            entities |-> <<>>,
            responses |->
              <<"You're welcome! I'm glad I could be of help.",
                "Thank you! I appreciate your kind words.",
                "I'm happy to be of assistance!">>],
         complaint |->
           [patterns |->
              <<"this is wrong",
                "you're not helpful",
                "this doesn't work",
                "I'm frustrated",
                "this is bad",
                "terrible",
                "awful">>,
            entities |-> <<>>,
            responses |->
              <<"I apologize for any inconvenience. Let me try to help you better.",
                "I'm sorry this isn't working as expected. How can I improve?",
                "I understand your frustration. Let me see what I can do to help.">>]]

\* Object.entries(intentCategories): the intents in declaration order
IntentOrder == <<"greeting", "goodbye", "help", "question", "compliment", "complaint">>

\* the module requires node-nlp, natural, sentiment, compromise, fs/promises,
\* the logger and envConfig: the identifier path is bound by none of them
PathDeclared == FALSE

\* new NlpManager(nlpConfig): nothing registered, not trained
createNlpManager ==
    [documents |-> {}, answers |-> {}, namedEntities |-> {}, trained |-> FALSE, saved |-> FALSE]

\* fs.readFile(p, 'utf8').then(JSON.parse) rejects for a missing file and for
\* a file that is not JSON
ReadFails(file) == file.state \in {"missing", "invalid"}

\* manager.addDocument for every utterance, manager.addAnswer for every
\* response of one intent
AddIntent(manager, name, utterances, responses) ==
    [manager EXCEPT
       !.documents = @ \cup {<<utterances[i], name>> : i \in 1..Len(utterances)},
       !.answers = @ \cup {<<name, responses[i]>> : i \in 1..Len(responses)}]

\* for (const intent of intents): a null element of the array raises a
\* TypeError at intent.name and leaves what was added before it
RECURSIVE AddCorpusIntents(_, _, _, _)
AddCorpusIntents(manager, intents, utterances, k) ==
    IF k > Len(intents) THEN [manager |-> manager, threw |-> FALSE]
    ELSE IF intents[k].isNull THEN [manager |-> manager, threw |-> TRUE]
    ELSE AddCorpusIntents(
             AddIntent(manager, intents[k].name, utterances[intents[k].name],
                       intents[k].responses),
             intents, utterances, k + 1)

\* for (const entity of entities): manager.addNamedEntityText
RECURSIVE AddCorpusEntities(_, _, _)
AddCorpusEntities(manager, entities, k) ==
    IF k > Len(entities) THEN [manager |-> manager, threw |-> FALSE]
    ELSE IF entities[k] = "null" THEN [manager |-> manager, threw |-> TRUE]
    ELSE AddCorpusEntities([manager EXCEPT !.namedEntities = @ \cup {entities[k]}],
                           entities, k + 1)

\* the inner try block: load the three files, then add intents and entities
LoadTrainingData(manager, corpus) ==
    IF ReadFails(corpus.intents) \/ ReadFails(corpus.utterances)
    THEN [manager |-> manager, threw |-> TRUE]
    ELSE LET entities == IF ReadFails(corpus.entities) THEN <<>> ELSE corpus.entities.value
             afterIntents == AddCorpusIntents(manager, corpus.intents.value,
                                              corpus.utterances.value, 1)
         IN  IF afterIntents.threw THEN afterIntents
             ELSE AddCorpusEntities(afterIntents.manager, entities, 1)

\* the inner catch block: the default intents, added to the same manager
RECURSIVE AddDefaultIntents(_, _)
AddDefaultIntents(manager, k) ==
    IF k > Len(IntentOrder) THEN manager
    ELSE AddDefaultIntents(
             AddIntent(manager, IntentOrder[k], intentCategories[IntentOrder[k]].patterns,
                       intentCategories[IntentOrder[k]].responses),
             k + 1)

\* the inner try with its catch: what is thrown while loading or adding the
\* training data is caught and the defaults are added to the manager as the
\* failed attempt left it
LoadOrDefault(manager, corpus) ==
    LET loaded == LoadTrainingData(manager, corpus)
    IN  IF loaded.threw THEN AddDefaultIntents(loaded.manager, 1) ELSE loaded.manager

\* InitializeNlpManager: "returned" with the manager, or "thrown" from the
\* outer catch block
InitializeNlpManager(corpus, saveOk) ==
    LET manager == createNlpManager
    IN  IF ~PathDeclared
        THEN \* path.resolve(...) raises ReferenceError inside the outer try
             [outcome |-> "thrown", manager |-> manager]
        ELSE LET filled == LoadOrDefault(manager, corpus)
             IN  [outcome |-> "returned",
                  manager |-> [filled EXCEPT !.trained = TRUE, !.saved = saveOk]]

\* ------------------------------------------------------------------------
\* Intent acceptance
\* ------------------------------------------------------------------------
\* one threshold for every environment
getConfidenceTresholdFixed(isDev) == 5

\* getConfidenceTreshold, in tenths: 0.3 in development, 0.5 otherwise
getConfidenceTreshold(isDev) == IF isDev THEN 3 ELSE 5

\* runtime selection over a ranked classification (confidences in tenths)
SelectIntent(rankedList, isDev) ==
    IF rankedList # <<>> /\ rankedList[1].confidence >= getConfidenceTreshold(isDev)
    THEN rankedList[1].intent
    ELSE "fallback"

\* ------------------------------------------------------------------------
\* Bounds and inputs
\* ------------------------------------------------------------------------
MaxRawLen == 4

MaxTextLen == 4

MaxCorpusIntents == 2

MaxRanked == 2

StringsUpTo(A, n) == UNION {[1..k -> A] : k \in 0..n}

\* raw utterances given to the normalizer
RawAlphabet == {"A", "a", " ", "\t", "@", "."}

ScenarioB == <<"M", "y", " ", "e", "m", "a", "i", "l", " ", "i", "s", " ", "j", "o", "h", "n", "@", "e", "x", "a", "m", "p", "l", "e", ".", "c", "o", "m">>

JohnAddress == <<"j", "o", "h", "n", "@", "e", "x", "a", "m", "p", "l", "e", ".", "c", "o", "m">>

RawSamples ==
    {ScenarioB, <<"a", " ", "@", " ", "b">>, <<"H", "i", " ", " ", "T", "H", "E", "R", "E", ",", " ", "B", "o", "b", "!">>}

RawInputs == StringsUpTo(RawAlphabet, MaxRawLen) \cup RawSamples

\* texts given to the extractor; the samples are the examples of the table
TextAlphabet == {"1", "a", " ", "."}

TextSamples ==
    {<<"J", "o", "h", "n", " ", "D", "o", "e">>,
     <<"1", "2", "/", "2", "5", "/", "2", "0", "2", "3">>,
     <<"2", "0", "2", "3", "-", "1", "2", "-", "2", "5">>,
     <<"2", ":", "3", "0", " ", "P", "M">>,
     <<"1", "4", ":", "3", "0">>,
     <<"2", ":", "3", "0", "p", "m">>,
     <<"u", "s", "e", "r", "@", "e", "x", "a", "m", "p", "l", "e", ".", "c", "o", "m">>,
     <<"1", "2", "3", "-", "4", "5", "6", "-", "7", "8", "9", "0">>,
     <<"(", "1", "2", "3", ")", " ", "4", "5", "6", "-", "7", "8", "9", "0">>,
     <<"4", "5", ".", "6", "7">>,
     <<"c", "a", "l", "l", " ", "5", "5", "5", "-", "1", "2", "3", "-", "4", "5", "6", "7", " ", "o", "r", " ", "5", "5", "5", "-", "1", "2", "3", "-", "4", "5", "6", "7">>,
     ScenarioB}

Texts == StringsUpTo(TextAlphabet, MaxTextLen) \cup TextSamples

\* contents of the training files
CorpusIntentNames == {"order", "refund"}

\* a file that cannot be read or parsed, or the value parsed from it
Unreadable(empty) == [state : {"missing", "invalid"}, value : {empty}]

Parsed(values) == [state : {"ok"}, value : values]

\* the elements of the intents array: intent objects, or a JSON null
IntentEntries ==
    [isNull : {FALSE}, name : CorpusIntentNames, responses : {<<>>, <<"On it.">>}]
      \cup [isNull : {TRUE}, name : {""}, responses : {<<>>}]

IntentsFiles ==
    Unreadable(<<>>) \cup Parsed(UNION {[1..k -> IntentEntries] : k \in 0..MaxCorpusIntents})

UtterancesFiles ==
    Unreadable([n \in CorpusIntentNames |-> <<>>])
      \cup Parsed([CorpusIntentNames -> {<<>>, <<"where is my parcel">>}])

\* the elements of the entities array: entity names, or "null" for a JSON null
EntitiesFiles == Unreadable(<<>>) \cup Parsed({<<>>, <<"city">>, <<"null">>})

Corpora == [intents : IntentsFiles, utterances : UtterancesFiles, entities : EntitiesFiles]

\* ranked classifications: distinct intents, confidence (tenths) descending
RankedIntents == {"greeting", "help", "fallback"}

RankedLists ==
    {r \in UNION {[1..k -> [intent : RankedIntents, confidence : 0..10]] : k \in 1..MaxRanked} :
        \A i, j \in 1..Len(r) :
            i < j => r[i].intent # r[j].intent /\ r[i].confidence >= r[j].confidence}

\* ------------------------------------------------------------------------
\* State
\* ------------------------------------------------------------------------
VARIABLES
    op,           \* the operation that acted last
    raw,          \* the raw utterance
    normalized,   \* preprocessText of raw
    renormalized, \* preprocessText of normalized
    text,         \* the text last given to extractentities
    entities,     \* the entity list it returned
    lastIndex,    \* lastIndex of the pattern object of each entity type
    warm,         \* an earlier extractentities call on another text had matches
    corpus,       \* the training files on disk
    saveOk,       \* whether the model path can be written
    nlp,          \* outcome of InitializeNlpManager and the manager it built
    isDevelopment,\* NODE_ENV === 'development'
    ranked,       \* the ranked classification of the turn
    selected,     \* the intent selected for the turn
    answers,      \* the (intent, response) pairs the reply is chosen from
    reply,        \* the reply text of the turn
    threshold2,   \* twice NLP_SENTIMENT_THRESHOLD
    tokens,       \* the tokens of the text given to analyzeSentiment
    sentiment,    \* the result of analyzeSentiment
    before,       \* the score of the text before the last token was appended
    appended,     \* the token appended last
    maxHistory,   \* the configured maximum history length of the session
    history,      \* the turn records of the session, oldest first
    slots,        \* the slot values of the session
    turnNo,       \* number of turns merged so far
    activeFlows,  \* the (flow, step) pairs active in the session
    triggeredBy,  \* the intent that triggered the active flow
    enteredFrom,  \* the dialogue state a flow was entered from in the last turn
    stepNotFound, \* the last turn followed a reference to a missing step
    flowReply,    \* what the last turn replies with
    turn,         \* the intent and the entity types of the last turn
    store,        \* the keys of the session store with their TTL
    sweepPc,      \* position of cleanExpiredSessions
    pending,      \* matching keys no scan page has returned yet
    keys,         \* the keys collected by the scan loop
    checked,      \* how many of them the ttl loop has handled
    cleanedCount, \* the counter of the ttl loop
    db,           \* the rows of the database
    seedOutcome,  \* how the run of the seed script ended
    listeners,    \* the clients whose signal listeners are registered, in order
    willFail,     \* the clients whose clean-up call will be rejected
    signals,      \* the signals delivered to the process so far
    cleanup,      \* state of the clean-up call of each client
    exited,       \* process.exit has been called
    status,       \* state of the Redis connection
    times,        \* reconnection attempts since the connection was last ready
    delay,        \* the delay the retry strategy returned last
    prevDelay     \* the delay it returned for the attempt before

textVars == <<raw, normalized, renormalized, text, entities, lastIndex, warm>>

nlpVars == <<corpus, saveOk, nlp>>

selectVars == <<isDevelopment, ranked, selected>>

replyVars == <<answers, reply>>

sentimentVars == <<threshold2, tokens, sentiment, before, appended>>

contextVars == <<maxHistory, history, slots, turnNo>>

flowVars == <<activeFlows, triggeredBy, enteredFrom, stepNotFound, flowReply, turn>>

sweepVars == <<store, sweepPc, pending, keys, checked, cleanedCount>>

seedVars == <<db, seedOutcome>>

shutdownVars == <<listeners, willFail, signals, cleanup, exited>>

retryVars == <<status, times, delay, prevDelay>>

processVars == <<shutdownVars, retryVars>>

serviceVars ==
    <<replyVars, sentimentVars, contextVars, flowVars, sweepVars, seedVars, processVars>>

vars == <<op, textVars, nlpVars, selectVars, serviceVars>>

NoFile == [state |-> "missing", value |-> <<>>]

NoCorpus ==
    [intents |-> NoFile,
     utterances |-> [state |-> "missing", value |-> [n \in CorpusIntentNames |-> <<>>]],
     entities |-> NoFile]

TextIdle ==
    /\ raw = <<>> /\ normalized = <<>> /\ renormalized = <<>>
    /\ text = <<>> /\ entities = <<>> /\ lastIndex = FreshIndexes /\ warm = FALSE

NlpIdle ==
    /\ corpus = NoCorpus /\ saveOk = TRUE
    /\ nlp = [outcome |-> "none", manager |-> createNlpManager]

SelectIdle == isDevelopment = FALSE /\ ranked = <<>> /\ selected = "none"

ReplyIdle == answers = {} /\ reply = ""

NoSentiment ==
    [score |-> 0, tokenCount |-> 0, positive |-> <<>>, negative |-> <<>>, label |-> "none"]

SentimentIdle ==
    /\ threshold2 = 1 /\ tokens = <<>> /\ sentiment = NoSentiment
    /\ before = 0 /\ appended = "none"

ContextIdle == maxHistory = 1 /\ history = <<>> /\ slots = {} /\ turnNo = 0

NoTurn == [intent |-> "none", entities |-> {}]

FlowIdle ==
    /\ activeFlows = {} /\ triggeredBy = "none" /\ enteredFrom = "none"
    /\ stepNotFound = FALSE /\ flowReply = "none" /\ turn = NoTurn

SweepIdle ==
    /\ store = {} /\ sweepPc = "idle" /\ pending = {} /\ keys = <<>>
    /\ checked = 0 /\ cleanedCount = 0

NoRows == [entities |-> {}, intents |-> {}, examples |-> {}, flows |-> {}, configurations |-> {}]

SeedIdle == db = NoRows /\ seedOutcome = "none"

NoCleanup == [prisma |-> "none", redis |-> "none"]

ShutdownIdle ==
    /\ listeners = <<>> /\ willFail = {} /\ signals = <<>>
    /\ cleanup = NoCleanup /\ exited = FALSE

RetryIdle == status = "idle" /\ times = 0 /\ delay = 0 /\ prevDelay = 0

ProcessIdle == ShutdownIdle /\ RetryIdle

ServiceIdle ==
    /\ ReplyIdle /\ SentimentIdle /\ ContextIdle /\ FlowIdle /\ SweepIdle /\ SeedIdle
    /\ ProcessIdle

\* ------------------------------------------------------------------------
\* The normalizer applied to a raw utterance, and to its own output
\* ------------------------------------------------------------------------
InitNorm ==
    /\ op = "start"
    /\ raw \in RawInputs
    /\ normalized = <<>> /\ renormalized = <<>>
    /\ text = <<>> /\ entities = <<>> /\ lastIndex = FreshIndexes /\ warm = FALSE
    /\ NlpIdle /\ SelectIdle /\ ServiceIdle

Normalize ==
    /\ op = "start"
    /\ op' = "normalize"
    /\ normalized' = preprocessText(raw)
    /\ UNCHANGED <<raw, renormalized, text, entities, lastIndex, warm>>
    /\ UNCHANGED <<nlpVars, selectVars, serviceVars>>

Renormalize ==
    /\ op = "normalize"
    /\ op' = "renormalize"
    /\ renormalized' = preprocessText(normalized)
    /\ UNCHANGED <<raw, normalized, text, entities, lastIndex, warm>>
    /\ UNCHANGED <<nlpVars, selectVars, serviceVars>>

NextNorm == Normalize \/ Renormalize

SpecNorm == InitNorm /\ [][NextNorm]_vars

\* ------------------------------------------------------------------------
\* The extractor: called on a text as given, or on the normalized utterance
\* ------------------------------------------------------------------------
InitExtract ==
    /\ op = "start"
    /\ raw \in Texts
    /\ normalized = <<>> /\ renormalized = <<>>
    /\ text = <<>> /\ entities = <<>> /\ lastIndex = FreshIndexes /\ warm = FALSE
    /\ NlpIdle /\ SelectIdle /\ ServiceIdle

\* the next utterance arrives: the results of the finished call are gone,
\* the pattern objects of the module stay as the call left them
Receive(t) ==
    /\ op # "start"
    /\ op' = "start"
    /\ raw' = t
    /\ normalized' = <<>>
    /\ text' = <<>>
    /\ entities' = <<>>
    /\ warm' = (warm \/ (entities # <<>> /\ raw # t))
    /\ UNCHANGED <<renormalized, lastIndex>>
    /\ UNCHANGED <<nlpVars, selectVars, serviceVars>>

ExtractOn(t) ==
    LET res == extractentities(t, lastIndex)
    IN  /\ text' = t
        /\ entities' = res.entities
        /\ lastIndex' = res.lastIndexes
        /\ UNCHANGED warm

\* extractentities(raw)
Extract ==
    /\ op = "start"
    /\ op' = "extract"
    /\ ExtractOn(raw)
    /\ UNCHANGED <<raw, normalized, renormalized>>
    /\ UNCHANGED <<nlpVars, selectVars, serviceVars>>

\* raw text -> normalizer -> entity extractor
Pipeline ==
    /\ op = "start"
    /\ op' = "pipeline"
    /\ normalized' = preprocessText(raw)
    /\ ExtractOn(normalized')
    /\ UNCHANGED <<raw, renormalized>>
    /\ UNCHANGED <<nlpVars, selectVars, serviceVars>>

NextExtract == Extract \/ Pipeline \/ \E t \in Texts : Receive(t)

SpecExtract == InitExtract /\ [][NextExtract]_vars

\* ------------------------------------------------------------------------
\* Start-up of the NLP manager
\* ------------------------------------------------------------------------
InitNlp ==
    /\ op = "start"
    /\ corpus \in Corpora
    /\ saveOk \in BOOLEAN
    /\ nlp = [outcome |-> "none", manager |-> createNlpManager]
    /\ TextIdle /\ SelectIdle /\ ServiceIdle

Startup ==
    /\ op = "start"
    /\ op' = "startup"
    /\ nlp' = InitializeNlpManager(corpus, saveOk)
    /\ UNCHANGED <<corpus, saveOk, textVars, selectVars, serviceVars>>

NextNlp == Startup

SpecNlp == InitNlp /\ [][NextNlp]_vars

\* ------------------------------------------------------------------------
\* Intent acceptance for one ranked classification
\* ------------------------------------------------------------------------
InitSelect ==
    /\ op = "start"
    /\ isDevelopment \in BOOLEAN
    /\ ranked \in RankedLists
    /\ selected = "none"
    /\ TextIdle /\ NlpIdle /\ ServiceIdle

Select ==
    /\ op = "start"
    /\ op' = "select"
    /\ selected' = SelectIntent(ranked, isDevelopment)
    /\ UNCHANGED <<isDevelopment, ranked, textVars, nlpVars, serviceVars>>

NextSelect == Select

SpecSelect == InitSelect /\ [][NextSelect]_vars

\* ------------------------------------------------------------------------
\* Properties
\* ------------------------------------------------------------------------
HasAdjacentWhitespace(s) ==
    \E i \in 1..(Len(s) - 1) : s[i] \in Whitespace /\ s[i + 1] \in Whitespace

HasOuterWhitespace(s) ==
    s # <<>> /\ (s[1] \in Whitespace \/ s[Len(s)] \in Whitespace)

Contains(s, C) == \E i \in 1..Len(s) : s[i] \in C

\* C1: normalizing the normalizer's output gives that output back.
C1_Idempotent == op = "renormalize" => renormalized = normalized

\* C2: the normalized form of "My email is john@example.com", given to the
\* extractor, yields an email entity whose value is john@example.com and
\* whose offsets locate it in the normalized text.
C2_ScenarioB ==
    (op = "pipeline" /\ raw = ScenarioB) =>
        \E i \in 1..Len(entities) :
            /\ entities[i].type = "email"
            /\ entities[i].value = JohnAddress
            /\ SubSeq(normalized, entities[i].start + 1, entities[i].end) = JohnAddress

\* the corpus of the start-up cannot be loaded: the intents or the
\* utterances file is missing or is not JSON
CorpusLoadFails == ReadFails(corpus.intents) \/ ReadFails(corpus.utterances)

DefaultManager == AddDefaultIntents(createNlpManager, 1)

\* C3: when the corpus fails to load, InitializeNlpManager returns a trained
\* manager holding the built-in default intents instead of throwing.
C3_FallbackStartup ==
    (op = "startup" /\ CorpusLoadFails) =>
        /\ nlp.outcome = "returned"
        /\ nlp.manager.trained
        /\ nlp.manager.documents = DefaultManager.documents

SevenDefaultIntents ==
    {"greeting", "goodbye", "help", "question", "compliment", "complaint", "fallback"}

\* C4: the default intents registered on a corpus-load failure are exactly
\* greeting, goodbye, help, question, compliment, complaint and fallback.
C4_DefaultIntentSet ==
    (op = "startup" /\ CorpusLoadFails) =>
        /\ Range(IntentOrder) = SevenDefaultIntents
        /\ {d[2] : d \in DefaultManager.documents} = SevenDefaultIntents

\* the spans of the matches of one pattern, in match order
RECURSIVE SpansFrom(_, _, _)
SpansFrom(alts, t, from) ==
    LET r == Exec(alts, t, from)
    IN  IF ~r.found THEN <<>>
        ELSE <<[start |-> r.index, end |-> r.end]>>
               \o SpansFrom(alts, t, IF r.end = r.index THEN r.end + 1 ELSE r.end)

RECURSIVE ActualSpans(_, _)
ActualSpans(k, t) ==
    IF k > Len(EntityTypeOrder) THEN <<>>
    ELSE SpansFrom(entityTypes[EntityTypeOrder[k]], t, 0) \o ActualSpans(k + 1, t)

Extracted == op \in {"extract", "pipeline"}

\* C5: there is one entity per match, each entity carries the span of its
\* own match, and two matches of one type never get the same span.
C5_OwnSpan ==
    Extracted =>
        LET spans == ActualSpans(1, text)
        IN  /\ Len(entities) = Len(spans)
            /\ \A i \in 1..Len(entities) :
                   entities[i].start = spans[i].start /\ entities[i].end = spans[i].end
            /\ \A i, j \in 1..Len(entities) :
                   (i # j /\ entities[i].type = entities[j].type) =>
                       <<entities[i].start, entities[i].end>>
                         # <<entities[j].start, entities[j].end>>

\* C6: every entity has 0 <= start < end <= length(text), and the text from
\* start to end is the entity's value.
C6_ValidOffsets ==
    Extracted =>
        \A i \in 1..Len(entities) :
            /\ 0 <= entities[i].start
            /\ entities[i].start < entities[i].end
            /\ entities[i].end <= Len(text)
            /\ SubSeq(text, entities[i].start + 1, entities[i].end) = entities[i].value

\* an entity found past the start of a text that still has text after it
C6_Witness ==
    /\ op = "extract"
    /\ \E i \in 1..Len(entities) : entities[i].start > 0 /\ entities[i].end < Len(text)

\* C7: the normalizer's output has no two consecutive whitespace characters
\* and neither starts nor ends with whitespace.
C7_NoExtraWhitespace ==
    op = "normalize" =>
        ~HasAdjacentWhitespace(normalized) /\ ~HasOuterWhitespace(normalized)

AllowList == Lower \cup Digit \cup {"_", " ", ".", ",", "!", "?", "'", "-"}

\* C8: every character of the normalizer's output is a lower-case word
\* character, a space, or one of . , ! ? ' -
C8_AllowListOnly ==
    op = "normalize" => \A i \in 1..Len(normalized) : normalized[i] \in AllowList

\* an utterance with a capital, a tab and a stripped character, normalized
\* to a text that is not empty
C8_Witness ==
    /\ op = "normalize"
    /\ Contains(raw, Upper) /\ Contains(raw, {"\t"}) /\ Contains(raw, {"@"})
    /\ normalized # <<>>

\* C9: whatever was extracted before, a call returns the entity list a call
\* on unused pattern objects returns, and leaves every lastIndex at 0.
C9_Deterministic ==
    Extracted =>
        /\ entities = extractentities(text, FreshIndexes).entities
        /\ lastIndex = FreshIndexes

\* a call that found entities after an earlier call on another text did
C9_Witness == op = "extract" /\ warm /\ entities # <<>>

OneSource(manager) ==
    LET registered == manager.documents \cup manager.answers
        defaults == DefaultManager.documents \cup DefaultManager.answers
    IN  registered \subseteq defaults \/ registered \cap defaults = {}

seedIntents ==
    <<[name |-> "greeting",
       patterns |-> <<"hello", "hi", "hey", "good morning", "good afternoon", "good evening">>,
       responses |->
         <<"Hello! How can I help you today?",
           "Hi there! What can I do for you?",
           "Hey! How are you doing?",
           "Good to see you! How can I assist?">>,
       entities |-> <<"person", "emotion">>,
       priority |-> 10],
      [name |-> "goodbye",
       patterns |-> <<"bye", "goodbye", "see you", "farewell", "take care">>,
       responses |->
         <<"Goodbye! Have a great day!",
           "See you later!",
           "Take care!",
           "Thanks for chatting with me!">>,
       entities |-> <<>>,
       priority |-> 10],
      [name |-> "help",
       patterns |-> <<"help", "what can you do", "how does this work", "I need help">>,
       responses |->
         <<"I can help you with various tasks. What would you like to know?",
           "I'm here to assist you! What do you need help with?",
           "Feel free to ask me anything. How can I help?">>,
       entities |-> <<"product">>,
       priority |-> 8],
      [name |-> "product_inquiry",
       patterns |-> <<"tell me about", "what is", "information about", "details of">>,
       responses |->
         <<"I can provide information about our products. What specific product are you interested in?",
           "Which product would you like to know more about?",
           "I have details about various products. What catches your interest?">>,
       entities |-> <<"product">>,
       priority |-> 7],
      [name |-> "weather",
       patterns |-> <<"weather", "temperature", "forecast", "is it raining", "sunny">>,
       responses |->
         <<"I'm sorry, I don't have access to current weather data. You might want to check a weather app or website.",
           "For weather information, I'd recommend checking your local weather service.",
           "I can't provide weather updates, but there are many great weather apps available!">>,
       entities |-> <<"time">>,
       priority |-> 5],
      [name |-> "small_talk",
       patterns |-> <<"how are you", "what's up", "how's it going", "what's new">>,
       responses |->
         <<"I'm doing well, thank you for asking! How are you?",
           "I'm great! Ready to help with whatever you need.",
           "All good on my end! What brings you here today?">>,
       entities |-> <<"emotion">>,
       priority |-> 3],
      [name |-> "fallback",
       patterns |-> <<"*">>,
       responses |->
         <<"I'm not sure I understand. Could you please rephrase that?",
           "I didn't quite catch that. Can you try asking in a different way?",
           "Sorry, I'm not sure how to help with that. Could you be more specific?">>,
       entities |-> <<>>,
       priority |-> 1]>>

conversationFlows ==
    <<[name |-> "product_support",
       steps |->
         <<[id |-> "identify_product", type |-> "ask",
            message |-> "Which product do you need help with?",
            entities |-> <<"product">>, next |-> "identify_issue"],
           [id |-> "identify_issue", type |-> "ask",
            message |-> "What issue are you experiencing?",
            entities |-> <<"problem_type">>, next |-> "provide_solution"],
           [id |-> "provide_solution", type |-> "response",
            message |-> "Here are some solutions for your issue...",
            entities |-> <<>>, next |-> "end"]>>,
       conditions |->
         [trigger_intents |-> <<"help", "product_inquiry">>, required_entities |-> <<"product">>]],
      [name |-> "greeting_flow",
       steps |->
         <<[id |-> "welcome", type |-> "response",
            message |-> "Welcome! I'm here to help you with any questions.",
            entities |-> <<>>, next |-> "ask_help"],
           [id |-> "ask_help", type |-> "ask",
            message |-> "What can I help you with today?",
            entities |-> <<"help_topic">>, next |-> "route_to_flow"]>>,
       conditions |->
         [trigger_intents |-> <<"greeting">>, required_entities |-> <<>>]]>>

seedEntityNames == <<"person", "emotion", "product", "time">>

seedConfigurationKeys == <<"default_confidence_threshold", "session_timeout_minutes", "max_context_messages", "enable_sentiment_analysis", "fallback_responses", "supported_languages">>

fallback_responses ==
    <<"I'm not sure I understand. Could you please rephrase that?",
      "I didn't quite catch that. Can you try asking in a different way?",
      "Sorry, I'm not sure how to help with that. Could you be more specific?">>

\* ------------------------------------------------------------------------
\* Reply selection
\* ------------------------------------------------------------------------
\* the answers of a manager trained on the default intents
DefaultAnswers == AddDefaultIntents(createNlpManager, 1).answers

\* the answers of a manager trained on the seeded intents
SeededAnswers ==
    UNION {{<<seedIntents[i].name, seedIntents[i].responses[j]>> :
               j \in 1..Len(seedIntents[i].responses)} : i \in 1..Len(seedIntents)}

ResponsesOf(intent, table) == {p[2] : p \in {a \in table : a[1] = intent}}

\* the replies the selector may give: one of the responses of the matched
\* intent; for the fallback intent or an intent without responses, one of
\* the fallback intent's responses; the empty text when there is none
ReplyCandidates(intent, table) ==
    LET own == ResponsesOf(intent, table)
        chosen == IF intent = "fallback" \/ own = {} THEN ResponsesOf("fallback", table)
                  ELSE own
    IN  IF chosen = {} THEN {""} ELSE chosen

InitReply ==
    /\ op = "start"
    /\ isDevelopment \in BOOLEAN
    /\ ranked \in RankedLists
    /\ selected = "none"
    /\ answers \in {DefaultAnswers, SeededAnswers}
    /\ reply = ""
    /\ TextIdle /\ NlpIdle
    /\ SentimentIdle /\ ContextIdle /\ FlowIdle /\ SweepIdle /\ SeedIdle
    /\ ProcessIdle

\* intent acceptance, then the choice of the reply
Respond ==
    /\ op = "start"
    /\ op' = "respond"
    /\ selected' = SelectIntent(ranked, isDevelopment)
    /\ reply' \in ReplyCandidates(selected', answers)
    /\ UNCHANGED <<isDevelopment, ranked, answers, textVars, nlpVars>>
    /\ UNCHANGED <<sentimentVars, contextVars, flowVars, sweepVars, seedVars>>
    /\ UNCHANGED processVars

NextReply == Respond

SpecReply == InitReply /\ [][NextReply]_vars

afinn == [good |-> 3, great |-> 3, bad |-> -3, awful |-> -3]

\* the negators of the English scoring strategy
negators == {"not", "cant", "dont"}

\* the score one token adds: its lexicon value, with the sign turned when
\* the token before it is a negator
TokenScore(toks, i) ==
    IF toks[i] \notin DOMAIN afinn THEN 0
    ELSE IF i > 1 /\ toks[i - 1] \in negators THEN 0 - afinn[toks[i]]
    ELSE afinn[toks[i]]

\* sentimentAnalyzer.analyze, from the last token to the first
RECURSIVE Analyze(_, _)
Analyze(toks, i) ==
    IF i = 0
    THEN [score |-> 0, tokenCount |-> Len(toks), positive |-> <<>>, negative |-> <<>>]
    ELSE LET rest == Analyze(toks, i - 1)
             ts == TokenScore(toks, i)
         IN  [rest EXCEPT
                !.score = @ + ts,
                !.positive = IF ts > 0 THEN <<toks[i]>> \o @ ELSE @,
                !.negative = IF ts < 0 THEN <<toks[i]>> \o @ ELSE @]

\* analyzeSentiment; t2 is twice env.NLP_SENTIMENT_THRESHOLD, so that
\* score > T is 2 * score > t2
analyzeSentiment(toks, t2) ==
    LET result == Analyze(toks, Len(toks))
    IN  [score |-> result.score, tokenCount |-> result.tokenCount,
         positive |-> result.positive, negative |-> result.negative,
         label |-> IF 2 * result.score > t2 THEN "positive"
                   ELSE IF 2 * result.score < 0 - t2 THEN "negative"
                   ELSE "neutral"]

MaxTokens == 3

MaxThreshold2 == 3

Vocabulary == {"good", "bad", "not", "the"}

TokenTexts == StringsUpTo(Vocabulary, MaxTokens)

\* z.coerce.number() accepts every number
Thresholds2 == (0 - MaxThreshold2)..MaxThreshold2

InitSentiment ==
    /\ op = "start"
    /\ threshold2 \in Thresholds2
    /\ tokens \in TokenTexts
    /\ sentiment = NoSentiment /\ before = 0 /\ appended = "none"
    /\ TextIdle /\ NlpIdle /\ SelectIdle
    /\ ReplyIdle /\ ContextIdle /\ FlowIdle /\ SweepIdle /\ SeedIdle
    /\ ProcessIdle

AnalyzeText ==
    /\ op = "start"
    /\ op' = "analyze"
    /\ sentiment' = analyzeSentiment(tokens, threshold2)
    /\ UNCHANGED <<threshold2, tokens, before, appended>>
    /\ UNCHANGED <<textVars, nlpVars, selectVars>>
    /\ UNCHANGED <<replyVars, contextVars, flowVars, sweepVars, seedVars>>
    /\ UNCHANGED processVars

\* the same text with one more token, analyzed again
AnalyzeLonger(token) ==
    /\ op \in {"analyze", "append"}
    /\ Len(tokens) <= MaxTokens
    /\ op' = "append"
    /\ tokens' = Append(tokens, token)
    /\ appended' = token
    /\ before' = sentiment.score
    /\ sentiment' = analyzeSentiment(tokens', threshold2)
    /\ UNCHANGED threshold2
    /\ UNCHANGED <<textVars, nlpVars, selectVars>>
    /\ UNCHANGED <<replyVars, contextVars, flowVars, sweepVars, seedVars>>
    /\ UNCHANGED processVars

NextSentiment == AnalyzeText \/ \E token \in Vocabulary : AnalyzeLonger(token)

SpecSentiment == InitSentiment /\ [][NextSentiment]_vars

Analyzed == op \in {"analyze", "append"}

\* C12: the label is positive exactly when score > T, negative exactly when
\* score < -T, and neutral exactly when neither holds.
C12_LabelByThreshold ==
    Analyzed =>
        /\ sentiment.label = "positive" <=> 2 * sentiment.score > threshold2
        /\ sentiment.label = "negative" <=> 2 * sentiment.score < 0 - threshold2
        /\ sentiment.label = "neutral" <=>
               ~(2 * sentiment.score > threshold2) /\ ~(2 * sentiment.score < 0 - threshold2)

Polarity(token) == IF token \in DOMAIN afinn THEN afinn[token] ELSE 0

\* C13: appending a token of positive polarity never decreases the score,
\* appending one of negative polarity never increases it.
C13_Monotonic ==
    op = "append" =>
        /\ Polarity(appended) > 0 => sentiment.score >= before
        /\ Polarity(appended) < 0 => sentiment.score <= before

\* ------------------------------------------------------------------------
\* Context Manager: merge
\* ------------------------------------------------------------------------
MaxHistory == 3

MaxTurns == 4

ContextTexts == {"hi", "help"}

ProductValues == {"printer", "router"}

\* the entity lists of a turn: nothing, or one product
TurnEntities == {{}} \cup {{<<"product", v>>} : v \in ProductValues}

NluResults == [intent : {"greeting", "help"}, entities : TurnEntities]

\* last write wins: an extracted entity replaces the slot of its type
UpdateSlots(current, extracted) ==
    {s \in current : \A e \in extracted : e[1] # s[1]} \cup extracted

\* what merge would do if it dropped the record it has just appended
mergeEvictNewest(context, nluResult, rawText) ==
    LET record == [text |-> rawText, nluResult |-> nluResult,
                   timestamp |-> context.turnNo + 1]
        longer == Append(context.history, record)
    IN  [maxHistory |-> context.maxHistory,
         history |-> IF Len(longer) > context.maxHistory
                     THEN SubSeq(longer, 1, Len(longer) - 1) ELSE longer,
         slots |-> UpdateSlots(context.slots, nluResult.entities),
         turnNo |-> context.turnNo + 1]

\* merge(sessionContext, nluResult, rawText): appends the turn record and
\* evicts the oldest one when the history would exceed the maximum
merge(context, nluResult, rawText) ==
    LET record == [text |-> rawText, nluResult |-> nluResult,
                   timestamp |-> context.turnNo + 1]
        longer == Append(context.history, record)
    IN  [maxHistory |-> context.maxHistory,
         history |-> IF Len(longer) > context.maxHistory THEN Tail(longer) ELSE longer,
         slots |-> UpdateSlots(context.slots, nluResult.entities),
         turnNo |-> context.turnNo + 1]

InitContext ==
    /\ op = "start"
    /\ maxHistory \in 1..MaxHistory
    /\ history = <<>> /\ slots = {} /\ turnNo = 0
    /\ TextIdle /\ NlpIdle /\ SelectIdle
    /\ ReplyIdle /\ SentimentIdle /\ FlowIdle /\ SweepIdle /\ SeedIdle
    /\ ProcessIdle

Merge(nluResult, rawText) ==
    /\ turnNo < MaxTurns
    /\ LET merged == merge([maxHistory |-> maxHistory, history |-> history,
                            slots |-> slots, turnNo |-> turnNo], nluResult, rawText)
       IN  /\ history' = merged.history
           /\ slots' = merged.slots
           /\ turnNo' = merged.turnNo
    /\ op' = "merge"
    /\ UNCHANGED maxHistory
    /\ UNCHANGED <<textVars, nlpVars, selectVars>>
    /\ UNCHANGED <<replyVars, sentimentVars, flowVars, sweepVars, seedVars>>
    /\ UNCHANGED processVars

NextContext == \E nluResult \in NluResults, rawText \in ContextTexts : Merge(nluResult, rawText)

SpecContext == InitContext /\ [][NextContext]_vars

Min(a, b) == IF a < b THEN a ELSE b

\* C14: after any sequence of merges the history is no longer than the
\* configured maximum N and holds the most recent min(k, N) of the k turns
\* in arrival order.
C14_BoundedHistory ==
    /\ Len(history) <= maxHistory
    /\ Len(history) = Min(turnNo, maxHistory)
    /\ \A i \in 1..Len(history) : history[i].timestamp = turnNo - Len(history) + i

\* with N = 3, four turns have left the last three
C14_Witness ==
    /\ maxHistory = 3 /\ turnNo = 4
    /\ [i \in 1..Len(history) |-> history[i].timestamp] = <<2, 3, 4>>

\* ------------------------------------------------------------------------
\* Dialogue Flow Engine over the seeded conversation flows
\* ------------------------------------------------------------------------
FlowIndexes == 1..Len(conversationFlows)

FlowNamed(name) ==
    conversationFlows[CHOOSE f \in FlowIndexes : conversationFlows[f].name = name]

StepIds(flow) == {flow.steps[i].id : i \in 1..Len(flow.steps)}

StepOf(flow, id) == flow.steps[CHOOSE i \in 1..Len(flow.steps) : flow.steps[i].id = id]

IntentNames == {seedIntents[i].name : i \in 1..Len(seedIntents)}

Priority(intent) ==
    seedIntents[CHOOSE i \in 1..Len(seedIntents) : seedIntents[i].name = intent].priority

\* the entity types the ask steps wait for
AskedEntities ==
    UNION {UNION {Range(conversationFlows[f].steps[i].entities) :
                     i \in 1..Len(conversationFlows[f].steps)} : f \in FlowIndexes}

Turns == [intent : IntentNames, entities : SUBSET AskedEntities]

\* the first flow, in seeding order, that the intent triggers; 0 for none
Triggered(intent) ==
    LET matching == {f \in FlowIndexes :
                        intent \in Range(conversationFlows[f].conditions.trigger_intents)}
    IN  IF matching = {} THEN 0
        ELSE CHOOSE f \in matching : \A g \in matching : f <= g

\* interrupt policy: the fallback intent, or an intent of higher priority
\* than the one that triggered the active flow
Interrupts(intent, trigger) ==
    intent = "fallback" \/ (trigger \in IntentNames /\ Priority(intent) > Priority(trigger))

\* what TriggerFlow would do without the precondition on Idle
TriggerFlowAnytime(active, intent) ==
    IF intent # "fallback" /\ Triggered(intent) # 0
    THEN {[flow |-> conversationFlows[Triggered(intent)].name,
           step |-> conversationFlows[Triggered(intent)].steps[1].id]}
    ELSE {}

\* from Idle: a triggering intent enters its flow at the first step
TriggerFlow(active, intent) ==
    IF active = {} /\ intent # "fallback" /\ Triggered(intent) # 0
    THEN {[flow |-> conversationFlows[Triggered(intent)].name,
           step |-> conversationFlows[Triggered(intent)].steps[1].id]}
    ELSE {}

\* what Follow would do if it did not look the step id up
FollowUnchecked(flow, next, kind) ==
    IF next = "" THEN [active |-> {}, notFound |-> FALSE, reply |-> kind]
    ELSE [active |-> {[flow |-> flow.name, step |-> next]}, notFound |-> FALSE,
          reply |-> kind]

\* following a next reference: no reference ends the flow, a reference to
\* a step of the flow moves there, any other reference aborts the flow
Follow(flow, next, kind) ==
    IF next = "" THEN [active |-> {}, notFound |-> FALSE, reply |-> kind]
    ELSE IF next \in StepIds(flow)
    THEN [active |-> {[flow |-> flow.name, step |-> next]}, notFound |-> FALSE,
          reply |-> kind]
    ELSE [active |-> {}, notFound |-> TRUE, reply |-> "fallback"]

\* what AskSatisfied would be if an ask step did not wait for its entity
AskSatisfiedAlways(step, extracted) == TRUE

\* the turn's extraction supplies what the ask step waits for
AskSatisfied(step, extracted) == Range(step.entities) \subseteq extracted

\* one turn at the current step of an active flow
StepTurn(a, extracted) ==
    LET flow == FlowNamed(a.flow)
        step == StepOf(flow, a.step)
    IN  IF step.type = "ask"
        THEN IF AskSatisfied(step, extracted) THEN Follow(flow, step.next, "prompt")
             ELSE [active |-> {a}, notFound |-> FALSE, reply |-> "prompt"]
        ELSE Follow(flow, step.next, "message")

\* one turn of the engine: interrupt, then the transition from Idle or
\* from the current step
FlowEngine(state, t) ==
    LET interrupted == state.active # {} /\ Interrupts(t.intent, state.triggeredBy)
        current == IF interrupted THEN {} ELSE state.active
        results == {StepTurn(a, t.entities) : a \in current}
        entered == TriggerFlow(current, t.intent)
        active == UNION {r.active : r \in results} \cup entered
        notFound == \E r \in results : r.notFound
    IN  [active |-> active,
         triggeredBy |-> IF entered # {} THEN t.intent
                         ELSE IF active = {} THEN "none" ELSE state.triggeredBy,
         enteredFrom |-> IF entered # {} THEN (IF current = {} THEN "Idle" ELSE "InFlow")
                         ELSE IF active = {} THEN "none" ELSE state.enteredFrom,
         notFound |-> notFound,
         reply |-> IF notFound THEN "fallback"
                   ELSE IF entered # {} \/ results = {} THEN "intent"
                   ELSE (CHOOSE r \in results : TRUE).reply]

InitFlow ==
    /\ op = "start"
    /\ FlowIdle
    /\ TextIdle /\ NlpIdle /\ SelectIdle
    /\ ReplyIdle /\ SentimentIdle /\ ContextIdle /\ SweepIdle /\ SeedIdle
    /\ ProcessIdle

FlowTurn(t) ==
    /\ op' = "turn"
    /\ turn' = t
    /\ LET after == FlowEngine([active |-> activeFlows, triggeredBy |-> triggeredBy,
                                enteredFrom |-> enteredFrom], t)
       IN  /\ activeFlows' = after.active
           /\ triggeredBy' = after.triggeredBy
           /\ enteredFrom' = after.enteredFrom
           /\ stepNotFound' = after.notFound
           /\ flowReply' = after.reply
    /\ UNCHANGED <<textVars, nlpVars, selectVars>>
    /\ UNCHANGED <<replyVars, sentimentVars, contextVars, sweepVars, seedVars>>
    /\ UNCHANGED processVars

NextFlow == \E t \in Turns : FlowTurn(t)

SpecFlow == InitFlow /\ [][NextFlow]_vars

\* C15: a session has at most one active flow, and a flow is entered only
\* from Idle.
C15_OneActiveFlow == Cardinality(activeFlows) <= 1 /\ enteredFrom # "InFlow"

\* the greeting flow has been entered, from Idle
C15_Witness ==
    /\ activeFlows = {[flow |-> "greeting_flow", step |-> "welcome"]}
    /\ enteredFrom = "Idle"
    /\ triggeredBy = "greeting"

AtProductAsk ==
    /\ activeFlows = {[flow |-> "product_support", step |-> "identify_product"]}
    /\ triggeredBy = "help"

ScenarioE ==
    IF "product" \in turn'.entities
    THEN activeFlows' = {[flow |-> "product_support", step |-> "identify_issue"]}
    ELSE activeFlows' = activeFlows

\* C16: the flow triggered by help stays at its ask step on every turn
\* that supplies no product entity and moves to the step after it on the
\* first turn that supplies one.
C16_ScenarioE == [][AtProductAsk => ScenarioE]_vars

\* C16, amended: the same, on the turns whose intent does not interrupt
\* the flow (neither fallback nor of higher priority than help).
C16_ScenarioE_NoInterrupt ==
    [][(AtProductAsk /\ ~Interrupts(turn'.intent, "help")) => ScenarioE]_vars

\* the flow triggered by help has moved on, on a turn that supplied a product
C16_Witness ==
    /\ activeFlows = {[flow |-> "product_support", step |-> "identify_issue"]}
    /\ triggeredBy = "help"
    /\ "product" \in turn.entities

DefinedStep(a) ==
    \E f \in FlowIndexes :
        conversationFlows[f].name = a.flow /\ a.step \in StepIds(conversationFlows[f])

\* C17: following a reference to a step the flow does not have aborts the
\* flow: the session is Idle and the turn's reply is the fallback response;
\* no session is in a flow at an undefined step.
C17_AbortOnMissingStep ==
    /\ \A a \in activeFlows : DefinedStep(a)
    /\ stepNotFound => activeFlows = {} /\ flowReply = "fallback"

C17_Witness == stepNotFound /\ activeFlows = {} /\ flowReply = "fallback"

\* ------------------------------------------------------------------------
\* cleanExpiredSessions over the session store
\* ------------------------------------------------------------------------
\* env.SESSION_TIMEOUT / 1000 with the default of 30 minutes
SessionTtl == 1800

\* the answers of TTL for a key without expiry and for a key that is not there
TtlNoExpiry == -1

TtlNoKey == -2

\* the seconds a session written by the application still has to live
LiveTtls == {60}

SessionNames == {"session:a", "session:b"}

\* a key of the store: a name with redisConfig.keyPrefix in front of it,
\* once or twice
StoreKeys == [prefixes : {1, 2}, name : SessionNames]

StoreEntries == [key : StoreKeys, ttl : {TtlNoExpiry} \cup LiveTtls]

Stores ==
    {entries \in SUBSET StoreEntries :
        \A e1, e2 \in entries : e1.key = e2.key => e1 = e2}

\* the client puts keyPrefix in front of the key of every key command
WithKeyPrefix(key) == [key EXCEPT !.prefixes = @ + 1]

\* SCAN MATCH `${keyPrefix}session:*`: the pattern is sent as written, and
\* the keys come back as they are stored
Matching(entries) == {e.key : e \in {x \in entries : x.key.prefixes = 1}}

\* TTL as the server answers it for a stored key
ServerTtl(entries, stored) ==
    IF \E e \in entries : e.key = stored
    THEN (CHOOSE e \in entries : e.key = stored).ttl
    ELSE TtlNoKey

\* EXPIRE as the server does it for a stored key
ServerExpire(entries, stored, seconds) ==
    {IF e.key = stored THEN [e EXCEPT !.ttl = seconds] ELSE e : e \in entries}

\* client.ttl(key)
ClientTtl(entries, key) == ServerTtl(entries, WithKeyPrefix(key))

\* client.expire(key, seconds)
ClientExpire(entries, key, seconds) == ServerExpire(entries, WithKeyPrefix(key), seconds)

InitSweep ==
    /\ op = "start"
    /\ store \in Stores
    /\ sweepPc = "idle" /\ pending = {} /\ keys = <<>> /\ checked = 0 /\ cleanedCount = 0
    /\ TextIdle /\ NlpIdle /\ SelectIdle
    /\ ReplyIdle /\ SentimentIdle /\ ContextIdle /\ FlowIdle /\ SeedIdle
    /\ ProcessIdle

SweepFrame ==
    /\ UNCHANGED <<textVars, nlpVars, selectVars>>
    /\ UNCHANGED <<replyVars, sentimentVars, contextVars, flowVars, seedVars>>
    /\ UNCHANGED processVars

\* cleanExpiredSessions is called: the cursor starts at '0'
StartSweep ==
    /\ sweepPc = "idle"
    /\ sweepPc' = "scan"
    /\ pending' = Matching(store)
    /\ op' = "sweep"
    /\ UNCHANGED <<store, keys, checked, cleanedCount>>
    /\ SweepFrame

\* one SCAN call returns one more key; the cursor is '0' after the last
ScanPage(key) ==
    /\ sweepPc = "scan"
    /\ key \in pending
    /\ keys' = Append(keys, key)
    /\ pending' = pending \ {key}
    /\ sweepPc' = IF pending' = {} THEN "check" ELSE "scan"
    /\ UNCHANGED <<op, store, checked, cleanedCount>>
    /\ SweepFrame

\* a SCAN call that finds no further session key returns the cursor '0'
ScanNothing ==
    /\ sweepPc = "scan"
    /\ pending = {}
    /\ sweepPc' = "check"
    /\ UNCHANGED <<op, store, pending, keys, checked, cleanedCount>>
    /\ SweepFrame

\* one round of the loop over the scanned keys
CheckKey ==
    /\ sweepPc = "check"
    /\ checked < Len(keys)
    /\ LET key == keys[checked + 1]
           ttl == ClientTtl(store, key)
       IN  /\ store' = IF ttl = TtlNoExpiry THEN ClientExpire(store, key, SessionTtl)
                       ELSE store
           /\ cleanedCount' = IF ttl = TtlNoKey THEN cleanedCount + 1 ELSE cleanedCount
    /\ checked' = checked + 1
    /\ UNCHANGED <<op, sweepPc, pending, keys>>
    /\ SweepFrame

\* the count is logged and returned
ReturnCount ==
    /\ sweepPc = "check"
    /\ checked = Len(keys)
    /\ sweepPc' = "done"
    /\ UNCHANGED <<op, store, pending, keys, checked, cleanedCount>>
    /\ SweepFrame

\* the server drops a key whose time to live has run out
KeyExpires(stored) ==
    /\ sweepPc \in {"scan", "check"}
    /\ \E e \in store : e.key = stored /\ e.ttl # TtlNoExpiry
    /\ store' = {e \in store : e.key # stored}
    /\ pending' = pending \ {stored}
    /\ UNCHANGED <<op, sweepPc, keys, checked, cleanedCount>>
    /\ SweepFrame

NextSweep ==
    \/ StartSweep
    \/ \E key \in StoreKeys : ScanPage(key)
    \/ ScanNothing
    \/ CheckKey
    \/ ReturnCount
    \/ \E stored \in StoreKeys : KeyExpires(stored)

SpecSweep == InitSweep /\ [][NextSweep]_vars

ScannedKeys == Range(keys)

\* C18: when the sweep returns, every scanned session key without expiry
\* has been given the session time to live, and the count returned is the
\* number of scanned keys that are no longer in the store; the key asked
\* about is the key the scan returned.
C18_SweepOwnKeys ==
    sweepPc = "done" =>
        /\ \A key \in ScannedKeys : ServerTtl(store, key) # TtlNoExpiry
        /\ cleanedCount <= Cardinality({key \in ScannedKeys : ServerTtl(store, key) = TtlNoKey})

\* ------------------------------------------------------------------------
\* The seed script
\* ------------------------------------------------------------------------
\* the only call of main is the last statement of main's own body: loading
\* the script declares main and calls nothing
MainCalled == FALSE

\* `intents.patterns`: intents is the array of the seeded intents, and an
\* array has no property of that name
IntentsPatterns == [defined |-> FALSE, value |-> <<>>]

\* the deleteMany calls
ClearRows(rows) == NoRows

SeedEntities(rows) == [rows EXCEPT !.entities = @ \cup Range(seedEntityNames)]

\* the loop over the intents: the intent is created, then the examples are
\* mapped from intents.patterns, which throws when that is undefined
RECURSIVE SeedIntents(_, _)
SeedIntents(rows, i) ==
    IF i > Len(seedIntents) THEN [threw |-> FALSE, rows |-> rows]
    ELSE LET created == [rows EXCEPT !.intents = @ \cup {seedIntents[i].name}]
         IN  IF ~IntentsPatterns.defined THEN [threw |-> TRUE, rows |-> created]
             ELSE SeedIntents(
                      [created EXCEPT !.examples = @ \cup
                          {<<seedIntents[i].name, pattern>> :
                              pattern \in Range(IntentsPatterns.value)}],
                      i + 1)

SeedFlows(rows) ==
    [rows EXCEPT !.flows = @ \cup
        {conversationFlows[f].name : f \in 1..Len(conversationFlows)}]

SeedConfigurations(rows) ==
    [rows EXCEPT !.configurations = @ \cup Range(seedConfigurationKeys)]

\* the callback given to helpers.transaction
SeedCallback(rows) ==
    LET withIntents == SeedIntents(SeedEntities(ClearRows(rows)), 1)
    IN  IF withIntents.threw THEN withIntents
        ELSE [threw |-> FALSE, rows |-> SeedConfigurations(SeedFlows(withIntents.rows))]

\* client.$transaction(callback): all of it, or nothing when it throws
transaction(rows) ==
    LET result == SeedCallback(rows)
    IN  IF result.threw THEN [outcome |-> "rolled back", rows |-> rows]
        ELSE [outcome |-> "completed", rows |-> result.rows]

\* running the script
RunSeed(rows) ==
    IF MainCalled THEN transaction(rows) ELSE [outcome |-> "not run", rows |-> rows]

\* the rows of the database before the seed runs
Databases ==
    [entities : SUBSET Range(seedEntityNames),
     intents : SUBSET {"greeting", "help"},
     examples : {{}},
     flows : SUBSET {"product_support", "greeting_flow"},
     configurations : {{}}]

InitSeed ==
    /\ op = "start"
    /\ db \in Databases
    /\ seedOutcome = "none"
    /\ TextIdle /\ NlpIdle /\ SelectIdle
    /\ ReplyIdle /\ SentimentIdle /\ ContextIdle /\ FlowIdle /\ SweepIdle
    /\ ProcessIdle

Seed ==
    /\ op = "start"
    /\ op' = "seed"
    /\ db' = RunSeed(db).rows
    /\ seedOutcome' = RunSeed(db).outcome
    /\ UNCHANGED <<textVars, nlpVars, selectVars>>
    /\ UNCHANGED <<replyVars, sentimentVars, contextVars, flowVars, sweepVars>>
    /\ UNCHANGED processVars

NextSeed == Seed

SpecSeed == InitSeed /\ [][NextSeed]_vars

\* one example per pattern of every seeded intent
SeededExamples ==
    UNION {{<<seedIntents[i].name, seedIntents[i].patterns[j]>> :
               j \in 1..Len(seedIntents[i].patterns)} : i \in 1..Len(seedIntents)}

\* C19: the seed run reaches 'Seeding completed' and has created the
\* entities, the intents with one example per pattern, the flows and the
\* configuration rows.
C19_SeedCompletes ==
    op = "seed" =>
        /\ seedOutcome = "completed"
        /\ db.examples = SeededExamples
        /\ db.entities = Range(seedEntityNames)
        /\ db.intents = IntentNames
        /\ db.flows = {conversationFlows[f].name : f \in 1..Len(conversationFlows)}
        /\ db.configurations = Range(seedConfigurationKeys)

\* ------------------------------------------------------------------------
\* The entity types behind the normalizer
\* ------------------------------------------------------------------------
\* the utterances tried: the short ones and the examples of the rule table
Utterances == RawInputs \cup Texts

\* the types of the entities the extractor finds in the normalized utterance
TypesAfterNormalizing(utterance) ==
    LET found == extractentities(preprocessText(utterance), FreshIndexes).entities
    IN  {found[i].type : i \in 1..Len(found)}

\* C21: for every entity type of the rule table some utterance, normalized
\* and then given to the extractor, yields an entity of that type.
C21_EveryTypeMatchable ==
    \A type \in EntityTypeNames :
        \E utterance \in Utterances : type \in TypesAfterNormalizing(utterance)

\* ------------------------------------------------------------------------
\* The next references of the seeded flows
\* ------------------------------------------------------------------------
\* the next references of a flow that name no step of it
DanglingNext(flow) ==
    {flow.steps[i].next : i \in 1..Len(flow.steps)} \ (StepIds(flow) \cup {""})

\* C22: every next reference of the seeded flows names a step of the same
\* flow, and no run of a seeded flow ends through a missing step.
C22_NextDefined ==
    /\ \A f \in FlowIndexes : DanglingNext(conversationFlows[f]) = {}
    /\ ~stepNotFound

\* ------------------------------------------------------------------------
\* The flows on turns that carry only entity types the repository defines
\* ------------------------------------------------------------------------
\* the entity types of the seeded definitions and of the extractor's table
ProducibleTypes == Range(seedEntityNames) \cup EntityTypeNames

\* a turn with no entity or with one entity of a defined type
ProducibleTurns ==
    [intent : IntentNames, entities : {{}} \cup {{type} : type \in ProducibleTypes}]

NextProducible == \E t \in ProducibleTurns : FlowTurn(t)

SpecProducible == InitFlow /\ [][NextProducible]_vars

\* C23: every entity type an ask step of a seeded flow waits for is defined
\* by the seeded entity definitions or by the extractor's rule table, so a
\* session in product_support is not held at an ask step for good.
C23_AskedTypesDefined ==
    \A a \in activeFlows :
        LET step == StepOf(FlowNamed(a.flow), a.step)
        IN  step.type = "ask" => Range(step.entities) \subseteq ProducibleTypes

\* on such turns no session gets past the ask step for problem_type
HeldAtIssue ==
    \A a \in activeFlows : a.flow = "product_support" => a.step # "provide_solution"

\* ------------------------------------------------------------------------
\* Shutdown on SIGINT / SIGTERM
\* ------------------------------------------------------------------------
MaxSignals == 2

Clients == {"prisma", "redis"}

Signals == {"SIGINT", "SIGTERM"}

\* the listeners of a signal in the order the clients were created; a client
\* that was never created has registered none
ListenerOrders ==
    {<<"prisma">>, <<"redis">>, <<"prisma", "redis">>, <<"redis", "prisma">>}

InitShutdown ==
    /\ op = "start"
    /\ listeners \in ListenerOrders
    /\ willFail \in SUBSET Clients
    /\ signals = <<>>
    /\ cleanup = NoCleanup
    /\ exited = FALSE
    /\ RetryIdle
    /\ TextIdle /\ NlpIdle /\ SelectIdle
    /\ ReplyIdle /\ SentimentIdle /\ ContextIdle /\ FlowIdle /\ SweepIdle /\ SeedIdle

ShutdownFrame ==
    /\ UNCHANGED <<textVars, nlpVars, selectVars, retryVars>>
    /\ UNCHANGED <<replyVars, sentimentVars, contextVars, flowVars, sweepVars, seedVars>>

\* the signal is delivered: every listener is called in turn and runs up
\* to its await, with prisma.$disconnect() or redisClient.quit() started
Signal(sig) ==
    /\ ~exited
    /\ Len(signals) < MaxSignals
    /\ signals' = Append(signals, sig)
    /\ cleanup' = [c \in Clients |->
                      IF c \in Range(listeners) /\ cleanup[c] = "none" THEN "pending"
                      ELSE cleanup[c]]
    /\ op' = "signal"
    /\ UNCHANGED <<listeners, willFail, exited>>
    /\ ShutdownFrame

\* the clean-up call of one client settles: its listener logs the outcome
\* and goes on to process.exit(0)
Settle(c) ==
    /\ ~exited
    /\ cleanup[c] = "pending"
    /\ cleanup' = [cleanup EXCEPT ![c] = IF c \in willFail THEN "failed" ELSE "done"]
    /\ exited' = TRUE
    /\ op' = "exit"
    /\ UNCHANGED <<listeners, willFail, signals>>
    /\ ShutdownFrame

NextShutdown ==
    \/ \E sig \in Signals : Signal(sig)
    \/ \E c \in Clients : Settle(c)

SpecShutdown == InitShutdown /\ [][NextShutdown]_vars

\* C24: the process exits only after the clean-up of every client with a
\* registered listener has completed or has failed and been logged.
C24_ExitAfterCleanup ==
    exited => \A c \in Range(listeners) : cleanup[c] \in {"done", "failed"}

\* ------------------------------------------------------------------------
\* The Redis retry strategy
\* ------------------------------------------------------------------------
MaxTimes == 60

\* what retryStrategy would return without the cap
retryStrategyUncapped(attempt) == attempt * 100

\* retryStrategy(times): Math.min(times * 100, 2000)
retryStrategy(attempt) == Min(attempt * 100, 2000)

InitRetry ==
    /\ op = "start"
    /\ status = "ready" /\ times = 0 /\ delay = 0 /\ prevDelay = 0
    /\ ShutdownIdle
    /\ TextIdle /\ NlpIdle /\ SelectIdle
    /\ ReplyIdle /\ SentimentIdle /\ ContextIdle /\ FlowIdle /\ SweepIdle /\ SeedIdle

RetryFrame ==
    /\ UNCHANGED <<textVars, nlpVars, selectVars, shutdownVars>>
    /\ UNCHANGED <<replyVars, sentimentVars, contextVars, flowVars, sweepVars, seedVars>>

\* the connection closes: the client asks the strategy with the number of
\* the attempt and waits for the delay it returns
ConnectionClosed ==
    /\ status \in {"ready", "reconnecting"}
    /\ times < MaxTimes
    /\ times' = times + 1
    /\ prevDelay' = delay
    /\ delay' = retryStrategy(times')
    /\ status' = "wait"
    /\ op' = "retry"
    /\ RetryFrame

\* the delay is over and the client connects again
Reconnect ==
    /\ status = "wait"
    /\ status' = "reconnecting"
    /\ op' = "reconnect"
    /\ UNCHANGED <<times, delay, prevDelay>>
    /\ RetryFrame

\* the connection is ready again: the count of attempts starts over
Ready ==
    /\ status = "reconnecting"
    /\ status' = "ready"
    /\ times' = 0 /\ delay' = 0 /\ prevDelay' = 0
    /\ op' = "ready"
    /\ RetryFrame

NextRetry == ConnectionClosed \/ Reconnect \/ Ready

SpecRetry == InitRetry /\ [][NextRetry]_vars

\* C25: for every attempt the delay is the smaller of 100 ms per attempt
\* and 2000 ms: it is a positive number of milliseconds, never above 2000
\* and never below the delay of the attempt before.
C25_RetryDelay ==
    times >= 1 =>
        /\ delay > 0 /\ delay <= 2000
        /\ delay >= prevDelay
        /\ IF times <= 20 THEN delay = times * 100 ELSE delay = 2000

\* an attempt beyond the cap has been made
C25_Witness == times = 21 /\ delay = 2000 /\ prevDelay = 2000 /\ status = "wait"

====
